---------------------------- MODULE Spec2Model ----------------------------
(***************************************************************************)
(* A model of react-simplified: the hook store (hooks, index) with         *)
(* useState / useEffect, the render orchestrator (render, _component,      *)
(* _root), the reconciler (reconcile), the display projector (createDom,   *)
(* updateDom) and the node builder (createElement).                        *)
(*                                                                         *)
(* JavaScript values are tokens.  "undef" is undefined, "null" is null,    *)
(* "NaN" is NaN, "pz" is +0, "nz" is -0, "one" and "two" are the numbers   *)
(* 1 and 2.  All of them are primitives, so typeof v is never 'object'     *)
(* except for "null".                                                      *)
(***************************************************************************)
EXTENDS Naturals, Sequences, FiniteSets

\* ------------------------------------------------------------------ bounds
\* slots of the hook store the model follows (the cursor is never reset by an
\* explicit render, so it grows without bound in the code)
MaxSlots == 6
\* nesting depth of renders re-entered from effect callbacks
MaxDepth == 3
\* length of a dependency list computed outside the hook store
MaxDeps == 2
\* render calls on one static tree
MaxPasses == 2
\* saturation of the counter of callback runs of empty-dependency effects
MaxRuns == 3
\* explicit render calls made from outside
MaxRenders == 2
\* children given to one createElement call
MaxChildren == 2

\* ------------------------------------------------------------------ values
Val == {"undef", "null", "NaN", "pz", "nz", "one", "two"}

Numbers == {"NaN", "pz", "nz", "one", "two"}

\* a === b
StrictEq(a, b) ==
    IF a \in Numbers /\ b \in Numbers
    THEN IF a = "NaN" \/ b = "NaN" THEN FALSE
         ELSE IF a \in {"pz", "nz"} /\ b \in {"pz", "nz"} THEN TRUE
         ELSE a = b
    ELSE a = b

\* the comparison of setState and useEffect written with !== instead
ObjectIsTripleEquals(a, b) == StrictEq(a, b)

\* Object.is(a, b): SameValue
ObjectIs(a, b) ==
    IF a \in Numbers /\ b \in Numbers
    THEN IF a = "NaN" /\ b = "NaN" THEN TRUE
         ELSE IF a \in {"pz", "nz"} /\ b \in {"pz", "nz"} THEN a = b
         ELSE StrictEq(a, b)
    ELSE StrictEq(a, b)

\* a ?? b
Coalesce(a, b) == IF a \in {"undef", "null"} THEN b ELSE a

\* if (v): the truthiness of a primitive
Truthy(v) == v \notin {"undef", "null", "NaN", "pz", "nz"}

\* ------------------------------------------------------- virtual nodes
\* k = "node": an object {type, props: {nodeValue, children: ch}};
\* k = "arr": an array whose elements are ch; k = "null" / "undef".
El(type, ch) == [k |-> "node", type |-> type, nodeValue |-> "undef", ch |-> ch]
Text(v) == [k |-> "node", type |-> "TEXT_NODE", nodeValue |-> v, ch |-> <<>>]
Arr(items) == [k |-> "arr", type |-> "undefined", nodeValue |-> "undef", ch |-> items]
Null == [k |-> "null", type |-> "undefined", nodeValue |-> "undef", ch |-> <<>>]
Undefined == [k |-> "undef", type |-> "undefined", nodeValue |-> "undef", ch |-> <<>>]
\* a TypeError thrown while the value was computed
Thrown == [k |-> "error", type |-> "TypeError", nodeValue |-> "undef", ch |-> <<>>]

HostTags == {"div", "span", "b"}

\* the hook-free component functions of the static trees
StaticComps == {"Leaf", "Wrap", "Nest", "Frag", "Nothing", "Void"}

\* type(): what each static component function returns, a fresh value per call
Returns(type) ==
    CASE type = "Leaf" -> El("span", <<Text("one")>>)
      [] type = "Wrap" -> El("Leaf", <<>>)
      [] type = "Nest" -> El("div", <<El("Leaf", <<>>), El("b", <<>>)>>)
      [] type = "Frag" -> Arr(<<El("b", <<>>), El("Leaf", <<>>)>>)
      [] type = "Nothing" -> Null
      [] OTHER -> Undefined

\* typeof x.type === 'string' (an array has no type: undefined)
IsStringType(x) == x.k = "node" /\ x.type \in HostTags \cup {"TEXT_NODE"}

\* typeof x.type === 'function'
IsFunctionType(x) == x.k = "node" /\ x.type \in StaticComps

\* reading x.type throws for null and undefined
TypeThrows(x) == x.k \in {"null", "undef", "error"}

AnyThrown(s) == \E i \in 1..Len(s) : s[i].k = "error"

RECURSIVE reconcile(_)
reconcile(component) ==
    IF TypeThrows(component) THEN Thrown
    ELSE IF component.k = "arr"
    THEN LET mapped == [i \in 1..Len(component.ch) |-> reconcile(component.ch[i])]
         IN IF AnyThrown(mapped) THEN Thrown ELSE Arr(mapped)
    ELSE LET comp == IF IsStringType(component) THEN component
                     ELSE Returns(component.type)
         IN IF comp.k = "node"
            THEN IF \E i \in 1..Len(comp.ch) : TypeThrows(comp.ch[i]) THEN Thrown
                 ELSE LET children ==
                            [i \in 1..Len(comp.ch) |->
                               IF IsStringType(comp.ch[i]) THEN comp.ch[i]
                               ELSE reconcile(comp.ch[i])]
                      IN IF AnyThrown(children) THEN Thrown
                         ELSE [comp EXCEPT !.ch = children]
            ELSE comp

\* the object `component` after reconcile(component) returned: a host node is
\* returned itself with its child slots overwritten, an array keeps its slots
\* (the elements that are host nodes are overwritten inside), a component node
\* is left alone (its function's result is what gets overwritten)
RECURSIVE AfterReconcile(_)
AfterReconcile(component) ==
    IF component.k = "arr"
    THEN Arr([i \in 1..Len(component.ch) |-> AfterReconcile(component.ch[i])])
    ELSE IF IsStringType(component) THEN reconcile(component)
    ELSE component

\* ---------------------------------------------------------- createElement
\* a child argument that is a primitive other than null and undefined (a
\* string, a number, a boolean): typeof child is not 'object'
Prim(v) == [k |-> "prim", type |-> "undefined", nodeValue |-> v, ch |-> <<>>]

\* typeof child === 'object': objects, arrays and null
TypeofObject(child) == child.k \in {"node", "arr", "null"}

\* the raw value of a child that is not an object
RawValue(child) == IF child.k = "prim" THEN child.nodeValue ELSE "undef"

\* the property names of the model; a mapping gives each name its value, or
\* "absent" where the object has no such key
PropKeys == {"className", "children"}

\* props as passed by the caller: null (no attributes) or an object
Props(isNull, map) == [isNull |-> isNull, map |-> map]

\* { ...props, children: normalizedChildren } without its children entry, which
\* the result carries as ch
Spread(props) ==
    [key \in PropKeys \ {"children"} |->
        IF props.isNull THEN "absent" ELSE props.map[key]]

createElement(type, props, children) ==
    LET normalizedChildren ==
          [i \in 1..Len(children) |->
             IF TypeofObject(children[i]) THEN children[i]
             ELSE Text(RawValue(children[i]))]
    IN [k |-> "node", type |-> type, attrs |-> Spread(props),
        ch |-> normalizedChildren]

\* ---------------------------------------------------------- display nodes
\* a display node: its tag, the plain properties nodeValue, title and children
\* as last assigned ("" on a fresh node), its event listeners as (event type,
\* handler) pairs, and its child nodes in order
DomElement(tag, kids) ==
    [tag |-> tag, nodeValue |-> "", title |-> "", children |-> "",
     listeners |-> {}, kids |-> kids]
DomText(v) ==
    [tag |-> "#text", nodeValue |-> v, title |-> "", children |-> "",
     listeners |-> {}, kids |-> <<>>]
DomThrown ==
    [tag |-> "#error", nodeValue |-> "", title |-> "", children |-> "",
     listeners |-> {}, kids |-> <<>>]

RECURSIVE Flatten(_)
Flatten(ss) == IF ss = <<>> THEN <<>> ELSE Head(ss) \o Flatten(Tail(ss))

\* the keys a props object of a display node can have; a props object gives
\* each key its value, or "absent" where it has no such key
DomKeys == {"onClick", "onclick", "title", "nodeValue", "children"}

\* {}
NoProps == [key \in DomKeys |-> "absent"]

\* key in props
HasKey(props, key) == props[key] # "absent"

\* props[key]
Lookup(props, key) == IF HasKey(props, key) THEN props[key] ELSE "undef"

\* Object.keys(props)
Keys(props) == {key \in DomKeys : HasKey(props, key)}

\* key.startsWith('on')
isEvent(key) == key \in {"onClick", "onclick"}

isNew(prev, next, key) == ~StrictEq(Lookup(prev, key), Lookup(next, key))

isProperty(key) == key # "children" /\ ~isEvent(key)

isGone(prev, next, key) == ~HasKey(next, key)

\* name.toLowerCase().substring(2)
eventType(name) == IF name \in {"onClick", "onclick"} THEN "click" ELSE "undefined"

\* the handler functions
Handlers == {"f", "g"}

updateDom(dom, prevProps, nextProps) ==
    LET removed == {<<eventType(name), Lookup(prevProps, name)>> :
                      name \in {key \in Keys(prevProps) :
                                  /\ isEvent(key)
                                  /\ \/ ~HasKey(nextProps, key)
                                     \/ isNew(prevProps, nextProps, key)}}
        cleared == {key \in Keys(prevProps) :
                      isProperty(key) /\ isGone(prevProps, nextProps, key)}
        assigned == {key \in Keys(nextProps) :
                       isProperty(key) /\ isNew(prevProps, nextProps, key)}
        \* addEventListener with a listener that is not a function adds nothing
        added == {<<eventType(name), Lookup(nextProps, name)>> :
                    name \in {key \in Keys(nextProps) :
                                /\ isEvent(key)
                                /\ isNew(prevProps, nextProps, key)
                                /\ Lookup(nextProps, key) \in Handlers}}
        After(name, now) == IF name \in assigned THEN Lookup(nextProps, name)
                            ELSE IF name \in cleared THEN ""
                            ELSE now
    IN [tag |-> dom.tag,
        nodeValue |-> After("nodeValue", dom.nodeValue),
        title |-> After("title", dom.title),
        children |-> After("children", dom.children),
        listeners |-> (dom.listeners \ removed) \cup added,
        kids |-> dom.kids]

\* fiber?.props ?? {}: a text node has nodeValue and children, a host node has
\* children, an array has no props
PropsOf(fiber) ==
    [key \in DomKeys |->
        IF fiber.k # "node" THEN "absent"
        ELSE IF key = "children" THEN "kids"
        ELSE IF key = "nodeValue" /\ fiber.type = "TEXT_NODE" THEN fiber.nodeValue
        ELSE "absent"]

RECURSIVE createDom(_)
createDom(fiber) ==
    IF fiber.k = "null" THEN DomElement("div", <<>>)
    ELSE IF TypeThrows(fiber) THEN DomThrown
    ELSE IF IsFunctionType(fiber) THEN createDom(Returns(fiber.type))
    ELSE LET dom == IF fiber.type = "TEXT_NODE" THEN DomText("")
                    ELSE DomElement(fiber.type, <<>>)
             children == IF fiber.k = "node" THEN fiber.ch ELSE <<>>
             kids == Flatten([i \in 1..Len(children) |->
                        IF children[i].k = "arr"
                        THEN [j \in 1..Len(children[i].ch) |->
                                createDom(children[i].ch[j])]
                        ELSE <<createDom(children[i])>>])
         IN IF \E i \in 1..Len(kids) : kids[i].tag = "#error" THEN DomThrown
            ELSE [updateDom(dom, NoProps, PropsOf(fiber)) EXCEPT !.kids = kids]


\* ------------------------------------------------------ component functions
\* The function components given to render.  Each is the sequence of hook calls
\* its body makes, in order; it returns <div>{state...}</div>, one text child per
\* state hook.
\*   state hook:  useState(init)
\*   effect hook: useEffect(callback, depArr) with
\*     deps = "empty": depArr is [];  "state": depArr is [the state read by hook
\*     dep];  "free": depArr is a list computed from outside the hook store;
\*     cb = "none": the callback calls no setter before it returns (it may start
\*     an asynchronous fetch);  "set": the callback calls the setter of state
\*     hook target with val, when = "always", or when = "dirty": only if that
\*     state is not its initial value.
S(init) == [h |-> "state", init |-> init, deps |-> "-", dep |-> 0,
            cb |-> "-", target |-> 0, val |-> "undef", when |-> "-"]
E(deps, dep, cb, target, val, when) ==
    [h |-> "effect", init |-> "undef", deps |-> deps, dep |-> dep,
     cb |-> cb, target |-> target, val |-> val, when |-> when]

Components == {"Counter", "Items", "RandomNum", "Listing", "Clamp", "ClampLoad",
               "Derived"}

Script(comp) ==
    CASE comp = "Counter" -> <<S("pz")>>
      [] comp = "Items" -> <<S("one"), E("empty", 0, "none", 0, "undef", "-")>>
      [] comp = "RandomNum" -> <<S("pz"), E("state", 1, "none", 0, "undef", "-")>>
      [] comp = "Listing" -> <<S("pz"), E("free", 0, "none", 0, "undef", "-")>>
      [] comp = "Clamp" -> <<S("pz"), E("state", 1, "set", 1, "one", "dirty")>>
      [] comp = "ClampLoad" -> <<S("pz"), E("state", 1, "set", 1, "one", "dirty"),
                                 E("empty", 0, "none", 0, "undef", "-")>>
      [] OTHER -> <<S("pz"), E("state", 1, "set", 1, "one", "always")>>

\* ------------------------------------------------------------ hook slots
\* a slot of the hooks array: a primitive (list = FALSE, v) or a dependency
\* list (list = TRUE, d); a slot never written reads as undefined
ValSlot(v) == [list |-> FALSE, v |-> v, d |-> <<>>]
ListSlot(d) == [list |-> TRUE, v |-> "undef", d |-> d]
UndefSlot == ValSlot("undef")

\* the value a state hook gets from hooks[index]: a list is an object
SlotValue(slot) == IF slot.list THEN "object" ELSE slot.v

\* Object.is(hooks[currIndex], newVal), newVal a primitive
SlotIs(slot, newVal) == IF slot.list THEN FALSE ELSE ObjectIs(slot.v, newVal)

\* oldDeps[i] (1-based here): undefined past the end and on a primitive
OldDepAt(oldDeps, i) ==
    IF oldDeps.list /\ i <= Len(oldDeps.d) THEN oldDeps.d[i] ELSE "undef"

\* shouldRunEffect of useEffect
ShouldRunEffect(oldDeps, depArr) ==
    IF oldDeps.list \/ Truthy(oldDeps.v)
    THEN \E i \in 1..Len(depArr) : ~ObjectIs(depArr[i], OldDepAt(oldDeps, i))
    ELSE TRUE

DepLists == UNION {[1..n -> {"one", "NaN"}] : n \in 0..MaxDeps}


\* ------------------------------------------------------------------- state
VARIABLES
    hooks,       \* init(): const hooks = [] (slot index -> slot, 0-based)
    index,       \* init(): let index = 0
    _component,  \* render.js: the remembered top-level component, or "null"
    _root,       \* render.js: the remembered mount point, or "null"
    root,        \* the children of the mount point, in order
    stack,       \* the render calls in flight, innermost last
    setters,     \* the setState closures returned so far: slot, component, hook
    call,        \* the setState call made by the step just taken, if any
    effectRuns,  \* callback runs of empty-dependency effects since the last
                 \* explicit render call
    thrown,      \* the last call from outside ended in an uncaught TypeError
    renders,     \* explicit render calls made so far
    app,         \* the component the application mounts: render(<app />, root)
    last,        \* the render that returned last: component, slots read, values
    built,       \* a static virtual node as the application built it
    tree,        \* that node object as it is now
    resolved,    \* what reconcile returned in the last render of tree
    previous,    \* what reconcile returned in the render of tree before that
    given,       \* the arguments of a createElement call: type, props, children
    element,     \* what that call returned
    node,        \* a display node that updateDom is applied to (its dom argument)
    prevProps,   \* the props that node was last brought up to
    nextProps    \* the props it is to be brought up to next

hookVars == <<hooks, index, stack, setters, call, effectRuns, app, last>>
treeVars == <<built, tree, resolved, previous>>
callVars == <<given, element, node, prevProps, nextProps>>
vars == <<hooks, index, _component, _root, root, stack, setters, call,
          effectRuns, thrown, renders, app, last, built, tree, resolved, previous,
          given, element, node, prevProps, nextProps>>

NoCall == [op |-> "none", slot |-> 0, val |-> "undef", hasChanged |-> FALSE,
           comp |-> "-", pos |-> 0, from |-> "-"]

SetCall(slot, val, hasChanged, comp, pos, from) ==
    [op |-> "set", slot |-> slot, val |-> val, hasChanged |-> hasChanged,
     comp |-> comp, pos |-> pos, from |-> from]

\* one render call in flight: the component being reconciled, the next hook call
\* of its body (pc), whether an effect callback of it is running (phase), what
\* its hooks returned (reads) and the slot each one read (cur), the pending
\* dependency list and whether the callback ran, and the setState call that
\* started it (cause; NoCall for an explicit render call)
Frame(comp, cause) ==
    [comp |-> comp, pc |-> 1, phase |-> "hook", reads |-> <<>>, cur |-> <<>>,
     depArr |-> <<>>, ran |-> FALSE, oldDeps |-> UndefSlot, latest |-> TRUE,
     cause |-> cause]

NoRender == [comp |-> "null", cur |-> <<>>, reads |-> <<>>]

Top == stack[Len(stack)]
Callers == SubSeq(stack, 1, Len(stack) - 1)
NotLatest(frames) == [i \in 1..Len(frames) |-> [frames[i] EXCEPT !.latest = FALSE]]

\* no createElement call made by the application is followed
NoElement == [k |-> "none", type |-> "undefined",
              attrs |-> [key \in PropKeys \ {"children"} |-> "absent"],
              ch |-> <<>>]

NoCreate ==
    /\ given = [type |-> "div", props |-> Props(TRUE, [key \in PropKeys |-> "absent"]),
                children |-> <<>>]
    /\ element = NoElement
    /\ node = DomElement("div", <<>>)
    /\ prevProps = NoProps
    /\ nextProps = NoProps

InitHooks ==
    /\ hooks = [i \in 0..(MaxSlots - 1) |-> UndefSlot]
    /\ index = 0
    /\ _component = "null"
    /\ _root = "null"
    /\ root = <<>>
    /\ stack = <<>>
    /\ setters = {}
    /\ call = NoCall
    /\ effectRuns = 0
    /\ thrown = FALSE
    /\ renders = 0
    /\ last = NoRender

Init ==
    /\ InitHooks
    /\ app \in Components \ {"Listing"}
    /\ built = Null
    /\ tree = Null
    /\ resolved = Null
    /\ previous = Null
    /\ NoCreate

\* render(hooks)(component, root) up to the call of reconcile: with root null,
\* root.firstChild throws and the TypeError unwinds every caller (no frame
\* catches); otherwise the mount point is emptied and reconcile starts
renderBegin(component, mount, callers, cause) ==
    IF mount = "null"
    THEN /\ stack' = <<>>
         /\ thrown' = TRUE
         /\ UNCHANGED root
    ELSE /\ Len(callers) < MaxDepth
         /\ root' = <<>>
         /\ stack' = Append(NotLatest(callers), Frame(component, cause))
         /\ thrown' = FALSE

\* the assignment made through the shared cursor instead of the captured index
AssignAtCursor(store, currIndex, newVal) ==
    [store EXCEPT ![index] = ValSlot(newVal)]

\* hooks[currIndex] = newVal, currIndex the cursor captured when useState ran
AssignSlot(store, currIndex, newVal) ==
    [store EXCEPT ![currIndex] = ValSlot(newVal)]

\* the setState closure of useState, called with newVal; callers are the renders
\* in flight that the call returns to
setState(currIndex, newVal, callers, made) ==
    LET hasChanged == ~SlotIs(hooks[currIndex], newVal)
    IN /\ call' = [made EXCEPT !.hasChanged = hasChanged]
       /\ IF hasChanged
          THEN /\ hooks' = AssignSlot(hooks, currIndex, newVal)
               /\ index' = 0
               /\ renderBegin(_component, _root, callers,
                              [made EXCEPT !.hasChanged = TRUE])
          ELSE /\ stack' = callers
               /\ thrown' = IF callers = <<>> THEN FALSE ELSE thrown
               /\ UNCHANGED <<hooks, index, root>>
       /\ UNCHANGED <<_component, _root, setters, renders, app, last>>
       /\ UNCHANGED <<treeVars, callVars>>

\* an explicit render call from outside, while no render is in flight
Render ==
    /\ stack = <<>>
    /\ renders < MaxRenders
    /\ renders' = renders + 1
    /\ renderBegin(app, "root", <<>>, NoCall)
    /\ call' = NoCall
    /\ effectRuns' = 0
    /\ UNCHANGED <<hooks, index, _component, _root, setters, app, last>>
    /\ UNCHANGED <<treeVars, callVars>>

\* a setter returned by an earlier render, called from outside (an event
\* handler, the end of a fetch) while no render is in flight
SetState(s, newVal) ==
    /\ stack = <<>>
    /\ setState(s.slot, newVal, <<>>,
                SetCall(s.slot, newVal, FALSE, s.comp, s.pos, "outside"))
    /\ UNCHANGED effectRuns

\* useState(initialValue), the next hook call of the innermost render
UseState ==
    /\ stack # <<>>
    /\ Top.phase = "hook"
    /\ Top.pc <= Len(Script(Top.comp))
    /\ Script(Top.comp)[Top.pc].h = "state"
    /\ index < MaxSlots
    /\ LET hook == Script(Top.comp)[Top.pc]
           state == Coalesce(SlotValue(hooks[index]), hook.init)
           currIndex == index
       IN /\ setters' = setters \cup
                          {[slot |-> currIndex, comp |-> Top.comp, pos |-> Top.pc]}
          /\ stack' = Append(Callers, [Top EXCEPT !.pc = @ + 1,
                                                  !.reads = Append(@, state),
                                                  !.cur = Append(@, currIndex)])
    /\ index' = index + 1
    /\ call' = NoCall
    /\ UNCHANGED <<hooks, _component, _root, root, effectRuns, thrown, renders,
                   app, last>>
    /\ UNCHANGED <<treeVars, callVars>>

\* the dependency lists a hook call can be given in this render
DepArrs(hook, reads) ==
    CASE hook.deps = "empty" -> {<<>>}
      [] hook.deps = "state" -> {<<reads[hook.dep]>>}
      [] OTHER -> DepLists

\* useEffect(callback, depArr) up to the return of callback()
UseEffect ==
    /\ stack # <<>>
    /\ Top.phase = "hook"
    /\ Top.pc <= Len(Script(Top.comp))
    /\ Script(Top.comp)[Top.pc].h = "effect"
    /\ index < MaxSlots
    /\ \E depArr \in DepArrs(Script(Top.comp)[Top.pc], Top.reads) :
         LET hook == Script(Top.comp)[Top.pc]
             oldDeps == hooks[index]
             shouldRunEffect == ShouldRunEffect(oldDeps, depArr)
             me == [Top EXCEPT !.phase = "effect", !.depArr = depArr,
                               !.ran = shouldRunEffect, !.oldDeps = oldDeps,
                               !.cur = Append(@, index)]
             calls == /\ shouldRunEffect
                      /\ hook.cb = "set"
                      /\ \/ hook.when = "always"
                         \/ ~StrictEq(Top.reads[hook.target],
                                      Script(Top.comp)[hook.target].init)
             counted == shouldRunEffect /\ hook.deps = "empty"
         IN /\ counted => effectRuns < MaxRuns
            /\ effectRuns' = IF counted THEN effectRuns + 1 ELSE effectRuns
            /\ IF calls
               THEN setState(Top.cur[hook.target], hook.val, Append(Callers, me),
                             SetCall(Top.cur[hook.target], hook.val, FALSE,
                                     Top.comp, hook.target, "effect"))
               ELSE /\ stack' = Append(Callers, me)
                    /\ call' = NoCall
                    /\ UNCHANGED <<hooks, index, _component, _root, root,
                                   setters, thrown, renders, app, last>>
                    /\ UNCHANGED <<treeVars, callVars>>

\* useEffect after callback(): hooks[index] = depArr; index++
EffectReturn ==
    /\ stack # <<>>
    /\ Top.phase = "effect"
    /\ index < MaxSlots
    /\ hooks' = [hooks EXCEPT ![index] = ListSlot(Top.depArr)]
    /\ index' = index + 1
    /\ stack' = Append(Callers, [Top EXCEPT !.phase = "hook", !.pc = @ + 1,
                                            !.reads = Append(@, "undef")])
    /\ call' = NoCall
    /\ UNCHANGED <<_component, _root, root, setters, effectRuns, thrown,
                   renders, app, last>>
    /\ UNCHANGED <<treeVars, callVars>>

\* what the component function returned: <div>{state}...</div>
Rendered(comp, reads) ==
    LET states == SelectSeq([i \in 1..Len(reads) |-> [pos |-> i, v |-> reads[i]]],
                            LAMBDA r : Script(comp)[r.pos].h = "state")
    IN El("div", [i \in 1..Len(states) |-> Text(states[i].v)])

\* a child of the mount point: the display node, and the render that made it
Mounted(dom, comp, reads, latest, cause) ==
    [dom |-> dom, comp |-> comp, reads |-> reads, latest |-> latest,
     cause |-> cause]

\* render after reconcile returned: remember component and root, createDom,
\* root.appendChild(dom)
RenderEnd ==
    /\ stack # <<>>
    /\ Top.phase = "hook"
    /\ Top.pc = Len(Script(Top.comp)) + 1
    /\ _component' = Top.comp
    /\ _root' = "root"
    /\ root' = Append(root, Mounted(createDom(Rendered(Top.comp, Top.reads)),
                                    Top.comp, Top.reads, Top.latest, Top.cause))
    /\ last' = [comp |-> Top.comp, cur |-> Top.cur, reads |-> Top.reads]
    /\ stack' = Callers
    /\ call' = NoCall
    /\ UNCHANGED <<hooks, index, setters, effectRuns, thrown, renders, app>>
    /\ UNCHANGED <<treeVars, callVars>>

Next ==
    \/ Render
    \/ \E s \in setters, newVal \in Val : SetState(s, newVal)
    \/ UseState
    \/ UseEffect
    \/ EffectReturn
    \/ RenderEnd

Spec == Init /\ [][Next]_vars

\* the application whose effect is given a dependency list computed outside the
\* hook store, a different one on each render
InitDeps ==
    /\ InitHooks
    /\ app = "Listing"
    /\ built = Null
    /\ tree = Null
    /\ resolved = Null
    /\ previous = Null
    /\ NoCreate

SpecDeps == InitDeps /\ [][Next]_vars

\* ------------------------------------------------------------ static trees
\* render(component, root) for a tree of hook-free components: no hook is
\* called, so the whole call is one step
Children0 == {Text("one"), El("b", <<>>), Null} \cup {El(c, <<>>) : c \in StaticComps}

Trees ==
    {El(c, <<>>) : c \in StaticComps}
      \cup {El("div", s) : s \in UNION {[1..n -> Children0] : n \in 0..2}}
      \cup {Arr(s) : s \in UNION {[1..n -> Children0 \ {Null}] : n \in 1..2}}

InitTree ==
    /\ InitHooks
    /\ app = "Counter"
    /\ built \in Trees
    /\ tree = built
    /\ resolved = Null
    /\ previous = Null
    /\ NoCreate

\* render(hooks)(tree, root): clear root, reconcile (which overwrites child slots
\* of tree in place), remember, createDom, appendChild; a TypeError leaves the
\* mount point empty, and the application renders the tree no more
RenderTree ==
    /\ renders < MaxPasses
    /\ ~thrown
    /\ renders' = renders + 1
    /\ LET rootComponent == reconcile(tree)
           dom == createDom(rootComponent)
       IN /\ previous' = resolved
          /\ resolved' = rootComponent
          /\ IF rootComponent.k = "error"
             THEN /\ thrown' = TRUE
                  /\ root' = <<>>
                  /\ UNCHANGED <<tree, _component, _root>>
             ELSE /\ tree' = AfterReconcile(tree)
                  /\ _component' = "tree"
                  /\ _root' = "root"
                  /\ IF dom.tag = "#error"
                     THEN thrown' = TRUE /\ root' = <<>>
                     ELSE /\ thrown' = FALSE
                          /\ root' = <<Mounted(dom, "tree", <<>>, TRUE, NoCall)>>
    /\ UNCHANGED <<hookVars, built, callVars>>

NextTree == RenderTree

SpecTree == InitTree /\ [][NextTree]_vars


\* ---------------------------------------------------------- building nodes
\* one createElement(type, props, ...children) call, as the compiled JSX makes
\* it; the arguments stay the caller's objects
ChildArgs == {Prim("hello"), Prim("pz"), Undefined, Null, El("b", <<>>),
              Text("one"), Arr(<<El("b", <<>>)>>)}

PropMaps == [PropKeys -> {"absent", "x"}]

InitElement ==
    /\ InitHooks
    /\ app = "Counter"
    /\ built = Null
    /\ tree = Null
    /\ resolved = Null
    /\ previous = Null
    /\ element = NoElement
    /\ node = DomElement("div", <<>>)
    /\ prevProps = NoProps
    /\ nextProps = NoProps
    /\ \E type \in {"div", "Leaf"}, isNull \in BOOLEAN, map \in PropMaps,
          children \in UNION {[1..n -> ChildArgs] : n \in 0..MaxChildren} :
          /\ isNull => map = [key \in PropKeys |-> "absent"]
          /\ given = [type |-> type, props |-> Props(isNull, map),
                      children |-> children]

\* createElement reads props and children and assigns to neither: the spread
\* and children.map build new objects
CreateElement ==
    /\ element = NoElement
    /\ element' = createElement(given.type, given.props, given.children)
    /\ UNCHANGED <<given, hooks, index, _component, _root, root, stack, setters,
                   call, effectRuns, thrown, renders, app, last>>
    /\ UNCHANGED <<treeVars, node, prevProps, nextProps>>

NextElement == CreateElement

SpecElement == InitElement /\ [][NextElement]_vars


\* ------------------------------------------------------ updating a node
\* updateDom applied again and again to one display node, each time from the
\* props of the call before to new props; the node starts as createDom makes
\* it: a fresh element brought up to its first props from {}
DomPropMaps ==
    {props \in [DomKeys -> {"absent", "undef", "kids", "one", "two", "f", "g"}] :
        /\ props["onClick"] \in {"absent"} \cup Handlers
        /\ props["onclick"] \in {"absent", "f"}
        /\ props["title"] \in {"absent", "undef", "one", "two"}
        /\ props["nodeValue"] = "absent"
        /\ props["children"] \in {"absent", "kids"}}

InitDom ==
    /\ InitHooks
    /\ app = "Counter"
    /\ built = Null
    /\ tree = Null
    /\ resolved = Null
    /\ previous = Null
    /\ given = [type |-> "div", props |-> Props(TRUE, [key \in PropKeys |-> "absent"]),
                children |-> <<>>]
    /\ element = NoElement
    /\ prevProps \in DomPropMaps
    /\ nextProps \in DomPropMaps
    /\ node = updateDom(DomElement("div", <<>>), NoProps, prevProps)

UpdateDom ==
    /\ node' = updateDom(node, prevProps, nextProps)
    /\ prevProps' = nextProps
    /\ nextProps' \in DomPropMaps
    /\ UNCHANGED <<hooks, index, _component, _root, root, stack, setters,
                   call, effectRuns, thrown, renders, app, last>>
    /\ UNCHANGED <<treeVars, given, element>>

NextDom == UpdateDom

SpecDom == InitDom /\ [][NextDom]_vars


\* ------------------------------------------------------------------ claims
\* the step just taken made a setState call
SetterCalled == call'.op = "set" /\ call' # call

\* the slot holds a primitive that is the same value as v (the tokens are
\* canonical: two tokens are the same value iff they are the same token)
SameValueStored(slot, v) == ~slot.list /\ slot.v = v

\* C1: a setState call whose argument is same-value-equal to the value stored
\* in the hook's slot (NaN equal to NaN, +0 different from -0) starts no render
\* and leaves the hook store, the cursor, the render context and the children
\* of the mount point as they were.
C1_StateIdentity ==
    [][(SetterCalled /\ SameValueStored(hooks[call'.slot], call'.val))
         => /\ UNCHANGED <<hooks, index, _component, _root, root>>
            /\ Len(stack') = Len(stack)
            /\ \A i \in 1..Len(stack) : stack'[i].comp = stack[i].comp
                                        /\ stack'[i].cause = stack[i].cause]_vars

\* a setter was called with NaN on a mounted tree whose slot holds NaN
C1_Witness ==
    /\ call.op = "set"
    /\ call.val = "NaN"
    /\ ~call.hasChanged
    /\ hooks[call.slot] = ValSlot("NaN")
    /\ Len(root) = 1

\* C2: in the re-render a changing setState(v) call starts, the state hook at
\* the call position of that setter returns v.
C2_UpdateValue ==
    \A i \in 1..Len(stack) :
        (/\ stack[i].cause.op = "set"
         /\ stack[i].cause.comp = stack[i].comp
         /\ stack[i].pc > stack[i].cause.pos)
          => stack[i].reads[stack[i].cause.pos] = stack[i].cause.val

\* C3: a changing setState call starts exactly one render, of the remembered
\* component, and that render runs to its end: the call does not throw, and when
\* a call made from outside returns no render is in flight.
C3_OneRender ==
    [][/\ (SetterCalled /\ call'.hasChanged)
            => /\ ~thrown'
               /\ Len(stack') = Len(stack) + 1
               /\ stack'[Len(stack')].comp = _component
               /\ stack'[Len(stack')].cause = call'
       /\ (stack # <<>> /\ Top.cause.from = "outside" /\ Len(stack') < Len(stack)
             /\ ~thrown')
            => stack' = <<>>]_vars

\* C4: the callback of an effect hook runs iff no previous list is stored in the
\* slot, or some entry of the new list differs from the entry of the stored list
\* at the same position, or the two lists differ in length.
C4_Gating ==
    \A i \in 1..Len(stack) :
        stack[i].phase = "effect"
          => (stack[i].ran <=>
                \/ ~stack[i].oldDeps.list
                \/ Len(stack[i].depArr) # Len(stack[i].oldDeps.d)
                \/ \E j \in 1..Len(stack[i].depArr) :
                      stack[i].depArr[j] # stack[i].oldDeps.d[j])

\* C5: the callback of an effect hook whose dependency list is [] on every
\* render runs once, on the first render, and never again in the renders that
\* state changes start.
C5_RunsOnce ==
    app \in {"Items", "ClampLoad"}
      => /\ effectRuns <= 1
         /\ (stack = <<>> /\ _component # "null") => effectRuns = 1

C7_Counter ==
    [][/\ (app = "Counter" /\ stack = <<>> /\ Len(root) = 1 /\ SetterCalled)
            => (stack' # <<>> <=> call'.val # root[1].reads[1])
       /\ (app = "Counter" /\ Len(stack) = 1 /\ stack' = <<>> /\ ~thrown'
             /\ Top.cause.op = "set")
            => root'[Len(root')].dom.kids[1].nodeValue = Top.cause.val]_vars

\* C8: when a render call returns, the mount point has exactly one child, the
\* display node of the render that started last.
C8_Replaces ==
    [][(stack # <<>> /\ Len(stack') = Len(stack) - 1 /\ root' # root)
          => (Len(root') = 1 /\ root'[1].latest)]_vars

\* a node whose component function returns an array
IsFragment(x) == IsFunctionType(x) /\ Returns(x.type).k = "arr"

\* one display node per element of the array the component of x returns
FragmentDoms(x) ==
    [j \in 1..Len(Returns(x.type).ch) |-> createDom(Returns(x.type).ch[j])]

\* C9: where a component returns an array, one display node per element of the
\* array is appended, in order, under the display node of the component's
\* parent (for the top-level component: under the mount point).
C9_Fragment ==
    (renders = 1 /\ ~thrown)
      => /\ IsFragment(built)
              => [i \in 1..Len(root) |-> root[i].dom] = FragmentDoms(built)
         /\ (built.k = "node" /\ built.type = "div")
              => root[1].dom.kids =
                   Flatten([i \in 1..Len(built.ch) |->
                              IF IsFragment(built.ch[i])
                              THEN FragmentDoms(built.ch[i])
                              ELSE <<createDom(built.ch[i])>>])

\* C10: a second reconcile of the same static node returns a tree structurally
\* equal to what the first returned.
C10_Idempotent ==
    renders = 2 => resolved = previous

\* a child argument that is already a structured node or a sequence of them
IsStructured(child) == child.k \in {"node", "arr"}

\* C11: createElement returns a node with one child per child argument, in
\* order: an argument that is a structured node or a sequence is the child
\* itself, any other argument is replaced by a text node whose nodeValue is the
\* raw argument; the caller's props are left as they were.
C11_BuildNode ==
    [][element' # element
         => /\ given' = given
            /\ element'.type = given.type
            /\ Len(element'.ch) = Len(given.children)
            /\ \A i \in 1..Len(given.children) :
                  element'.ch[i] =
                    IF IsStructured(given.children[i]) THEN given.children[i]
                    ELSE IF given.children[i].k = "null" THEN Text("null")
                    ELSE Text(RawValue(given.children[i]))]_vars

\* a node whose component function returns null or undefined
IsAbsentResult(x) == IsFunctionType(x) /\ Returns(x.type).k \in {"null", "undef"}

\* the generic empty container
EmptyContainer == DomElement("div", <<>>)

\* C12: a render of a tree in which a component function, at the top or as a
\* child of a host node, returns null or undefined does not throw, and the
\* display node made for that result is an empty div.
C12_AbsentResult ==
    renders >= 1
      => /\ IsAbsentResult(built)
              => (~thrown /\ Len(root) = 1 /\ root[1].dom = EmptyContainer)
         /\ (/\ built.k = "node" /\ built.type = "div"
             /\ \A i \in 1..Len(built.ch) : built.ch[i].k # "null"
             /\ \E i \in 1..Len(built.ch) : IsAbsentResult(built.ch[i]))
              => /\ ~thrown
                 /\ Len(root) = 1
                 /\ root[1].dom.kids =
                      Flatten([i \in 1..Len(built.ch) |->
                                 IF IsAbsentResult(built.ch[i])
                                 THEN <<EmptyContainer>>
                                 ELSE IF IsFragment(built.ch[i])
                                 THEN FragmentDoms(built.ch[i])
                                 ELSE <<createDom(built.ch[i])>>])

\* the step just taken is the return of the effect hook of the innermost render
EffectHookReturns ==
    /\ stack # <<>>
    /\ Top.phase = "effect"
    /\ Len(stack') = Len(stack)
    /\ stack'[Len(stack')].phase = "hook"

\* the slot the effect hook of the innermost render read its previous list from
SlotRead == Top.cur[Len(Top.cur)]

\* C13: when an effect hook returns, it has written its new dependency list into
\* the slot it read the previous list from and no other slot, and the cursor is
\* one past that slot, also after its callback called a setter that re-entered
\* render.
C13_EffectSlot ==
    [][EffectHookReturns
         => /\ hooks' = [hooks EXCEPT ![SlotRead] = ListSlot(Top.depArr)]
            /\ index' = SlotRead + 1]_vars

\* C14: when a changing setState call starts its re-render, _component and
\* _root are the component and the mount point of the last explicit render
\* call, and the re-render is a render of them, also when the call is made from
\* an effect callback while that explicit render call is in flight.
C14_RenderContext ==
    [][(SetterCalled /\ call'.hasChanged /\ renders >= 1)
         => /\ _component = app
            /\ _root = "root"
            /\ stack' # <<>>
            /\ stack'[Len(stack')].comp = app]_vars

\* C15: in a render started by a setState call the cursor is 0 at the start and
\* one more after each hook call of the render has returned, so the k-th hook
\* call used slot k-1 and at the end of the render the cursor is the number of
\* hook calls made.
C15_Cursor ==
    (stack # <<>> /\ Top.cause.op = "set" /\ Top.phase = "hook")
      => /\ index = Top.pc - 1
         /\ \A p \in 1..Len(Top.cur) : Top.cur[p] = p - 1

\* a function-typed node occurs in x, at any depth
RECURSIVE HasFunctionNode(_)
HasFunctionNode(x) ==
    \/ IsFunctionType(x)
    \/ \E i \in 1..Len(x.ch) : HasFunctionNode(x.ch[i])

\* C16: the tree reconcile returns has no function-typed node at any depth.
C16_Resolved ==
    (renders >= 1 /\ resolved.k # "error") => ~HasFunctionNode(resolved)

\* C17: a changing setState call writes the slot at which its state hook was
\* called, wherever the cursor is by then, and leaves every other slot of the
\* hook store as it was.
C17_SetterSlot ==
    [][(SetterCalled /\ call'.hasChanged)
         => /\ [slot |-> call'.slot, comp |-> call'.comp, pos |-> call'.pos]
                  \in setters
            /\ hooks' = [hooks EXCEPT ![call'.slot] = ValSlot(call'.val)]]_vars

\* a setter of a mounted component was called from outside, after the render
\* that returned it had moved the cursor on and written a dependency list
C17_Witness ==
    /\ call.op = "set"
    /\ call.hasChanged
    /\ call.from = "outside"
    /\ _component # "null"
    /\ hooks[call.slot] = ValSlot(call.val)
    /\ \E j \in DOMAIN hooks : j > call.slot /\ hooks[j].list

\* what each hook position of the mounted component stands for in the hook
\* store as it is now: for the state hook at position p the value stored in
\* slot p-1, or its initial value if the slot was never written
StoredReads ==
    [p \in 1..Len(Script(app)) |->
        IF Script(app)[p].h = "state"
        THEN IF hooks[p - 1] = UndefSlot THEN Script(app)[p].init
             ELSE SlotValue(hooks[p - 1])
        ELSE "undef"]

\* C18: whenever no render is in flight after a render has completed, the
\* mount point has exactly one child, the display node of the component
\* evaluated on the values now in the hook store.
C18_Projection ==
    (stack = <<>> /\ _component # "null")
      => /\ Len(root) = 1
         /\ root[1].dom = createDom(Rendered(app, StoredReads))

\* C19: a render in flight, and the setState call that started it, goes on to
\* return: no step of it throws (which would leave the effect callbacks after
\* that point unrun), and the renders nested by effect callbacks stay fewer
\* than MaxDepth deep.
C19_Returns ==
    [][stack # <<>> => (~thrown' /\ Len(stack') < MaxDepth)]_vars

\* the listeners and plain properties of node d are those of props: one
\* listener per event-named entry whose value is a handler, every plain
\* property in props at its value (an entry whose value is undefined may also
\* read as cleared), every other plain property cleared, and the children
\* entry never assigned
Reflects(d, props) ==
    /\ d.listeners = {<<eventType(name), props[name]>> :
                        name \in {key \in Keys(props) :
                                    isEvent(key) /\ props[key] \in Handlers}}
    /\ IF HasKey(props, "title")
       THEN d.title = props["title"] \/ (props["title"] = "undef" /\ d.title = "")
       ELSE d.title = ""
    /\ IF HasKey(props, "nodeValue")
       THEN d.nodeValue = props["nodeValue"]
       ELSE d.nodeValue = ""
    /\ d.children = ""

\* C20: updateDom(node, prevProps, nextProps) applied to a node whose listeners
\* and plain properties are those of prevProps leaves it with the listeners and
\* plain properties of nextProps.
C20_Synchronized ==
    [][Reflects(node, prevProps) => Reflects(node', nextProps)]_vars

=============================================================================
